---------------------------- MODULE Spec2Model ----------------------------
(***************************************************************************)
(* Model of src/script.js, the camera web app: zoom control (slider,       *)
(* pinch, max-zoom setting), camera acquisition (initCamera and its        *)
(* callers), the render loop (renderLoop / drawFrame) and the recording    *)
(* pipeline (startRecording / stopRecording / updateRecordTimer /          *)
(* saveVideo).                                                             *)
(*                                                                         *)
(* Numbers.  Zoom values are exact rationals <<n, d>> in lowest terms.      *)
(* Times are integers in units of 1/3 ms, so that 1000/targetFPS is the    *)
(* integer 3000 \div targetFPS for every frame rate of FpsChoices.         *)
(***************************************************************************)
EXTENDS Integers, Sequences, FiniteSets, TLC

(***************************************************************************)
(* Bounds of the model                                                     *)
(***************************************************************************)
\* largest denominator of a zoom value a pinch may produce
MaxDen == 4
\* total number of initCamera calls (boot included)
MaxCalls == 2
\* last animation-frame timestamp, in units of 1/3 ms
MaxClock == 150
\* number of MediaRecorder objects created
MaxRecorders == 2
\* chunks one recorder delivers before it is stopped
MaxChunks == 1
\* photo captures whose toBlob callback is still pending
MaxPhotos == 1
\* renderLoop invocations kept in the history tickLog
LogLen == 3

(***************************************************************************)
(* Rational arithmetic for zoom                                            *)
(***************************************************************************)
RECURSIVE GCD(_, _)
GCD(a, b) == IF b = 0 THEN a ELSE GCD(b, a % b)

Rat(n, d) == LET g == GCD(n, d) IN <<n \div g, d \div g>>

RatLeq(a, b) == a[1] * b[2] <= b[1] * a[2]

RatMin(a, b) == IF RatLeq(a, b) THEN a ELSE b

RatMax(a, b) == IF RatLeq(a, b) THEN b ELSE a

RatOfInt(i) == <<i, 1>>

\* a plausible slip: the ratio is taken the wrong way round
RatScale_Inverted(z, dist, start) == Rat(z[1] * start, z[2] * dist)

RatAdd(a, b) == Rat(a[1] * b[2] + b[1] * a[2], a[2] * b[2])

RatSub(a, b) == Rat(a[1] * b[2] - b[1] * a[2], a[2] * b[2])

RatMul(a, b) == Rat(a[1] * b[1], a[2] * b[2])

\* a / b for b > 0
RatDiv(a, b) == Rat(a[1] * b[2], a[2] * b[1])

\* pinchStartZoom * (dist / pinchStartDistance)
RatScale(z, dist, start) == Rat(z[1] * dist, z[2] * start)

(***************************************************************************)
(* Inputs                                                                  *)
(***************************************************************************)
\* values parseFloat(zoomSlider.value) may deliver: 1/2, 1, 3/2, 2, 7/2, 5, 12
SliderValues == {<<1, 2>>, <<1, 1>>, <<3, 2>>, <<2, 1>>, <<7, 2>>, <<5, 1>>, <<12, 1>>}

\* options of maxZoomSelect, all >= 1
MaxZoomChoices == {1, 2, 3, 5, 10}

\* finger distances Math.hypot may deliver (0: both fingers on one point)
PinchDistances == {0, 100, 150, 200, 300}

\* pinchStartDistance = null
NoPinch == 0

\* e.touches.length
TouchCounts == {1, 2, 3}

\* options of fpsSelect
FpsChoices == {24, 30, 60}

\* gaps between two animation frames, in 1/3 ms: 10 ms, 16.67 ms, 25 ms
FrameGaps == {30, 50, 75}

Facings == {"environment", "user"}

\* values parseFloat(exposureSlider.value) may deliver, as rationals
ExposureValues == {<<-2, 1>>, <<-1, 1>>, <<-1, 2>>, <<-1, 4>>, <<0, 1>>,
                   <<1, 4>>, <<1, 2>>, <<1, 1>>, <<2, 1>>}

\* chip.dataset.filter of the filter chips
Filters == {"none", "bw", "vivid", "cinema", "film"}

\* <<video.videoWidth, video.videoHeight>> of a ready video
SourceSizes == {<<1920, 1080>>, <<640, 480>>}

VARIABLES
  \* ---- zoom (script.js 61-62, 74-75)
  zoom, maxZoom, pinchStartDistance, pinchStartZoom, lastMove,
  \* ---- camera session (script.js 56-57, 71)
  stream, currentFacing, targetFPS, calls, live, videoReady, alerts,
  \* ---- render loop (script.js 72, 146-180)
  clock, lastFrameTime, renderPending, tickLog, gridBase,
  \* ---- recording (script.js 58, 65-69)
  currentMode, recording, mediaRecorder, recordedChunks, recordTimerRAF,
  timerPending, timerText, timerWrote, recorders, files, photoPending, lastPhoto,
  \* ---- filter settings and compositing (script.js 59, 63, 84-99, 158-180)
  exposure, currentFilter, lastDraw

zoomVars == <<zoom, maxZoom, pinchStartDistance, pinchStartZoom, lastMove>>

camVars == <<stream, currentFacing, targetFPS, calls, live, videoReady, alerts>>

renderVars == <<clock, lastFrameTime, renderPending, tickLog, gridBase>>

recVars == <<currentMode, recording, mediaRecorder, recordedChunks,
             recordTimerRAF, timerPending, timerText, timerWrote, recorders,
             files, photoPending, lastPhoto>>

drawVars == <<exposure, currentFilter, lastDraw>>

vars == <<zoomVars, camVars, renderVars, recVars, drawVars>>

(***************************************************************************)
(* ZOOM CONTROL  (script.js 224-271, 400-403)                              *)
(*                                                                         *)
(* lastMove is history: <<touches, distance>> of the touchmove event when  *)
(* the last step was one, <<>> otherwise.                                  *)
(***************************************************************************)
\* a plausible slip: the upper clamp is forgotten
ClampZoom_NoUpper(value, mz) == RatMax(value, RatOfInt(1))

\* a plausible slip: a value above maxZoom wraps around instead of
\* saturating
ClampZoom_Wrap(value, mz) ==
  IF RatLeq(value, RatOfInt(mz)) THEN RatMax(value, RatOfInt(1))
  ELSE Rat(value[1] - mz * value[2], value[2])

\* Math.min(Math.max(value, 1), maxZoom)
ClampZoom(value, mz) == RatMin(RatMax(value, RatOfInt(1)), RatOfInt(mz))

\* setZoom(value): zoom = clamp; zoomSlider.value = zoom
setZoom(value) == zoom' = ClampZoom(value, maxZoom')

\* zoomSlider "input" handler
ZoomSliderInput ==
  \E v \in SliderValues :
    /\ UNCHANGED <<maxZoom, pinchStartDistance, pinchStartZoom>>
    /\ lastMove' = <<>>
    /\ setZoom(v)

\* touchstart handler
TouchStart ==
  \E n \in TouchCounts, d \in PinchDistances :
    /\ IF n = 2
         THEN /\ pinchStartDistance' = d
              /\ pinchStartZoom' = zoom
         ELSE UNCHANGED <<pinchStartDistance, pinchStartZoom>>
    /\ lastMove' = <<>>
    /\ UNCHANGED <<zoom, maxZoom>>

\* touchmove handler: a null or zero start distance is falsy
TouchMove ==
  \E n \in TouchCounts, d \in PinchDistances :
    /\ UNCHANGED <<maxZoom, pinchStartDistance, pinchStartZoom>>
    /\ lastMove' = <<n, d>>
    /\ IF n = 2 /\ pinchStartDistance # NoPinch
         THEN /\ RatScale(pinchStartZoom, d, pinchStartDistance)[2] <= MaxDen
              /\ setZoom(RatScale(pinchStartZoom, d, pinchStartDistance))
         ELSE UNCHANGED zoom

\* touchend handler
TouchEnd ==
  /\ pinchStartDistance' = NoPinch
  /\ lastMove' = <<>>
  /\ UNCHANGED <<zoom, maxZoom, pinchStartZoom>>

\* maxZoomSelect "change" handler: maxZoom = parseInt(value); setZoom(zoom)
MaxZoomChange ==
  \E m \in MaxZoomChoices :
    /\ maxZoom' = m
    /\ setZoom(zoom)
    /\ lastMove' = <<>>
    /\ UNCHANGED <<pinchStartDistance, pinchStartZoom>>


(***************************************************************************)
(* CAMERA INITIALIZATION  (script.js 104-126, 380-383, 395-398, 427-430)   *)
(*                                                                         *)
(* calls[i] is the i-th invocation of initCamera: what triggered it, the   *)
(* constraints it passed to getUserMedia and how far it got:               *)
(*   "gum"    awaiting getUserMedia          "play"  awaiting video.play() *)
(*   "done"   ran to the end                 "failed" its promise rejected *)
(* The stream obtained by call i is named i; stream = 0 stands for null.   *)
(* live is the set of streams whose tracks have not been stopped.          *)
(***************************************************************************)
NoStream == 0

CallIds == 1..Len(calls)

InPhase(ph) == {i \in CallIds : calls[i].phase = ph}

OtherFacing(f) == IF f = "environment" THEN "user" ELSE "environment"

\* if (stream) stream.getTracks().forEach(t => t.stop())
StopTracks(s, lv) == IF s # NoStream THEN lv \ {s} ELSE lv

\* how a rejected initCamera promise is handled by the caller: only the
\* boot call has a .catch that alerts; the click handler awaits without
\* try/catch and the fps handler drops the promise
Surface(al, i, trigger) == IF trigger = "boot" THEN al \cup {i} ELSE al

SetPhase(cs, i, ph) == [cs EXCEPT ![i].phase = ph]

\* initCamera up to its first await, called by a handler that has already
\* assigned currentFacing' and targetFPS'
initCamera(trigger) ==
  /\ Len(calls) < MaxCalls
  /\ live' = StopTracks(stream, live)
  /\ calls' = Append(calls, [trigger |-> trigger, facing |-> currentFacing',
                             fps |-> targetFPS', phase |-> "gum"])
  /\ UNCHANGED <<stream, videoReady, alerts>>

\* switchCameraBtn "click" handler
SwitchCameraClick ==
  /\ currentFacing' = OtherFacing(currentFacing)
  /\ UNCHANGED targetFPS
  /\ initCamera("switch")
  /\ UNCHANGED renderVars

\* fpsSelect "change" handler
FpsChange ==
  \E f \in FpsChoices :
    /\ targetFPS' = f
    /\ UNCHANGED currentFacing
    /\ initCamera("fps")
    /\ gridBase' = lastFrameTime
    /\ UNCHANGED <<clock, lastFrameTime, renderPending, tickLog>>

\* getUserMedia resolves for call i: stream = result; video.srcObject =
\* stream, which resets the element (readyState 0) and rejects the play()
\* promises still pending on it; then video.play() is awaited
GumResolve ==
  \E i \in InPhase("gum") :
    /\ stream' = i
    /\ live' = live \cup {i}
    /\ videoReady' = FALSE
    /\ calls' = [j \in CallIds |->
                  IF j = i THEN [calls[j] EXCEPT !.phase = "play"]
                  ELSE IF calls[j].phase = "play"
                    THEN [calls[j] EXCEPT !.phase = "failed"]
                    ELSE calls[j]]
    /\ alerts' = alerts \cup {j \in InPhase("play") : calls[j].trigger = "boot"}
    /\ UNCHANGED <<currentFacing, targetFPS>>
    /\ UNCHANGED renderVars

\* getUserMedia rejects for call i (permission denied, no matching device)
GumReject ==
  \E i \in InPhase("gum") :
    /\ calls' = SetPhase(calls, i, "failed")
    /\ alerts' = Surface(alerts, i, calls[i].trigger)
    /\ UNCHANGED <<stream, live, videoReady, currentFacing, targetFPS>>
    /\ UNCHANGED renderVars

\* the video element obtains its first frame: readyState >= 2
VideoLoaded ==
  /\ stream # NoStream
  /\ stream \in live
  /\ ~videoReady
  /\ videoReady' = TRUE
  /\ UNCHANGED <<stream, live, calls, alerts, currentFacing, targetFPS>>
  /\ UNCHANGED renderVars

\* video.play() resolves for call i: resizeCanvas();
\* requestAnimationFrame(renderLoop)
PlayResolve ==
  \E i \in InPhase("play") :
    /\ videoReady
    /\ calls' = SetPhase(calls, i, "done")
    /\ renderPending' = renderPending + 1
    /\ UNCHANGED <<stream, live, videoReady, alerts, currentFacing, targetFPS>>
    /\ UNCHANGED <<clock, lastFrameTime, tickLog, gridBase>>

\* video.play() rejects for call i (autoplay refused)
PlayReject ==
  \E i \in InPhase("play") :
    /\ calls' = SetPhase(calls, i, "failed")
    /\ alerts' = Surface(alerts, i, calls[i].trigger)
    /\ UNCHANGED <<stream, live, videoReady, currentFacing, targetFPS>>
    /\ UNCHANGED renderVars


(***************************************************************************)
(* RENDER LOOP  (script.js 146-180)                                        *)
(*                                                                         *)
(* renderPending is the number of renderLoop callbacks in the animation-   *)
(* frame queue.  One animation frame runs every one of them with the same  *)
(* timestamp.  tickLog is history: the invocations of renderLoop since the *)
(* last accepted one, ending with the latest (at most LogLen of them);     *)
(* gridBase is history too: lastFrameTime when targetFPS was last assigned.*)
(***************************************************************************)
\* const frameInterval = 1000 / targetFPS, in 1/3 ms
FrameInterval(fps) == 3000 \div fps

\* a plausible slip: strict comparison
GateAccepts_Strict(delta, frameInterval) == delta > frameInterval

\* if (delta >= frameInterval)
GateAccepts(delta, frameInterval) == delta >= frameInterval

\* a plausible slip: the baseline is reset to the tick time
NextBaseline_Reset(now, delta, frameInterval) == now

\* lastFrameTime = now - (delta % frameInterval)
NextBaseline(now, delta, frameInterval) == now - (delta % frameInterval)

\* drawFrame(): "unready" when video.readyState < 2, "threw" when
\* ctx.drawImage (or the grain overlay) raises, otherwise "drew"
drawFrame(ready, fault) ==
  IF ~ready THEN "unready" ELSE IF fault THEN "threw" ELSE "drew"

LastN(s, n) == IF Len(s) <= n THEN s ELSE SubSeq(s, Len(s) - n + 1, Len(s))

\* history bookkeeping: a tick after an accepted one starts a new log
Logged(log, entry) ==
  IF log # <<>> /\ log[Len(log)].accepted THEN <<entry>>
  ELSE LastN(Append(log, entry), LogLen)

\* one invocation of renderLoop(now) on the loop state
\* st = [lft: lastFrameTime, resched: callbacks requested again, log: history]
renderLoop(st, now, fps, ready, fault) ==
  LET delta == now - st.lft
      frameInterval == FrameInterval(fps)
      accepted == GateAccepts(delta, frameInterval)
      lft2 == IF accepted THEN NextBaseline(now, delta, frameInterval) ELSE st.lft
      outcome == IF accepted THEN drawFrame(ready, fault) ELSE "skipped"
      again == IF outcome = "threw" THEN 0 ELSE 1
      entry == [now |-> now, lft |-> st.lft, fps |-> fps, accepted |-> accepted,
                lftAfter |-> lft2, outcome |-> outcome, ready |-> ready,
                resched |-> again = 1]
  IN [lft |-> lft2, resched |-> st.resched + again, log |-> Logged(st.log, entry)]

\* the n pending callbacks of one animation frame, in order
RECURSIVE RunCallbacks(_, _, _, _, _, _)
RunCallbacks(n, st, now, fps, ready, fault) ==
  IF n = 0 THEN st
  ELSE RunCallbacks(n - 1, renderLoop(st, now, fps, ready, fault), now, fps,
                    ready, fault)

\* the browser runs an animation frame gap after the previous one; fault
\* says whether drawing raises in this frame
AnimationFrame ==
  \E gap \in FrameGaps, fault \in BOOLEAN :
    /\ clock + gap <= MaxClock
    /\ clock' = clock + gap
    /\ LET st == RunCallbacks(renderPending,
                              [lft |-> lastFrameTime, resched |-> 0, log |-> tickLog],
                              clock', targetFPS, videoReady, fault)
       IN /\ lastFrameTime' = st.lft
          /\ renderPending' = st.resched
          /\ tickLog' = st.log
    /\ UNCHANGED gridBase
    /\ UNCHANGED camVars


(***************************************************************************)
(* VIDEO RECORDING  (script.js 311-352, 357-375)                           *)
(*                                                                         *)
(* recorders[r] is the r-th MediaRecorder: its state, the number n of      *)
(* chunks its ondataavailable handler has received, and the tasks q the    *)
(* browser has queued for it and not yet run: "data" fires dataavailable,  *)
(* "final" fires dataavailable and then stop, "errfinal" fires error,      *)
(* dataavailable and then stop.  Chunk k of recorder r is <<r, k>>.        *)
(* files is what saveVideo has downloaded; the field by (history) names    *)
(* the recorder whose stop event ran saveVideo.                            *)
(* timerPending is the set of handles of updateRecordTimer callbacks in    *)
(* the animation-frame queue.  timerWrote (history) says that the last     *)
(* step was updateRecordTimer writing the elapsed time to the display.     *)
(***************************************************************************)
NoRecorder == 0

NoHandle == 0

RecIds == 1..Len(recorders)

\* requestAnimationFrame returns a handle never returned before; the only
\* handle the program keeps is recordTimerRAF, so the least handle that is
\* neither pending nor kept is indistinguishable from a new one
FreshHandle(pending, kept) ==
  CHOOSE h \in 1..(Cardinality(pending) + 2) :
    /\ h \notin pending \cup {kept}
    /\ \A g \in 1..(h - 1) : g \in pending \cup {kept}

\* a plausible slip: stopRecording forgets to cancel the callback
CancelAnimationFrame_Forgotten(pending, h) == pending

\* cancelAnimationFrame(recordTimerRAF)
CancelAnimationFrame(pending, h) == pending \ {h}

\* requestAnimationFrame(updateRecordTimer)
RequestTimerFrame(pending, h) == pending \cup {h}

\* mediaRecorder.stop(): a recorder that is recording becomes inactive and
\* the browser queues one task that fires its last dataavailable and then
\* its stop event; on an inactive recorder the call does nothing
RecorderStop(rs, r) ==
  IF rs[r].state = "recording"
    THEN [rs EXCEPT ![r].state = "inactive", ![r].q = Append(@, "final")]
    ELSE rs

\* number of "data" tasks in a queue
RECURSIVE CountData(_)
CountData(q) ==
  IF q = <<>> THEN 0
  ELSE (IF Head(q) = "data" THEN 1 ELSE 0) + CountData(Tail(q))

\* modePhotoBtn "click" handler
ModePhotoClick ==
  /\ currentMode' = "photo"
  /\ timerWrote' = FALSE
  /\ UNCHANGED <<recording, mediaRecorder, recordedChunks, recordTimerRAF,
                 timerPending, timerText, recorders, files, photoPending,
                 lastPhoto>>

\* modeVideoBtn "click" handler
ModeVideoClick ==
  /\ currentMode' = "video"
  /\ timerWrote' = FALSE
  /\ UNCHANGED <<recording, mediaRecorder, recordedChunks, recordTimerRAF,
                 timerPending, timerText, recorders, files, photoPending,
                 lastPhoto>>

\* capturePhoto(): canvas.toBlob(callback, type, 0.95) queues the callback;
\* nothing around the call catches or reports anything
capturePhoto ==
  /\ photoPending < MaxPhotos
  /\ photoPending' = photoPending + 1
  /\ timerWrote' = FALSE
  /\ UNCHANGED <<currentMode, recording, mediaRecorder, recordedChunks,
                 recordTimerRAF, timerPending, timerText, recorders, files,
                 lastPhoto>>

\* startRecording(), with the call of updateRecordTimer() that ends it
startRecording ==
  /\ Len(recorders) < MaxRecorders
  /\ recorders' = Append(recorders, [state |-> "recording", n |-> 0, q |-> <<>>,
                                     errored |-> FALSE])
  /\ mediaRecorder' = Len(recorders) + 1
  /\ recordedChunks' = <<>>
  /\ recording' = TRUE
  /\ timerText' = "elapsed"
  /\ timerWrote' = TRUE
  /\ LET h == FreshHandle(timerPending, recordTimerRAF)
     IN /\ recordTimerRAF' = h
        /\ timerPending' = RequestTimerFrame(timerPending, h)
  /\ UNCHANGED <<currentMode, files, photoPending,
                 lastPhoto>>

\* stopRecording()
stopRecording ==
  /\ recording' = FALSE
  /\ recorders' = RecorderStop(recorders, mediaRecorder)
  /\ timerPending' = CancelAnimationFrame(timerPending, recordTimerRAF)
  /\ timerWrote' = FALSE
  /\ UNCHANGED <<currentMode, mediaRecorder, recordedChunks, recordTimerRAF,
                 timerText, files, photoPending,
                 lastPhoto>>

\* captureBtn "click" handler
CaptureClick ==
  IF currentMode = "photo" THEN capturePhoto
  ELSE IF recording THEN stopRecording ELSE startRecording

\* the animation frame runs the pending updateRecordTimer callback h
UpdateRecordTimer ==
  \E h \in timerPending :
    /\ IF ~recording
         THEN /\ timerPending' = timerPending \ {h}
              /\ timerWrote' = FALSE
              /\ UNCHANGED <<timerText, recordTimerRAF>>
         ELSE LET rest == timerPending \ {h}
                  h2 == FreshHandle(rest, recordTimerRAF)
              IN /\ timerText' = "elapsed"
                 /\ timerWrote' = TRUE
                 /\ recordTimerRAF' = h2
                 /\ timerPending' = RequestTimerFrame(rest, h2)
    /\ UNCHANGED <<currentMode, recording, mediaRecorder, recordedChunks,
                   recorders, files, photoPending,
                 lastPhoto>>

\* while it records, the browser may hand over the data gathered so far
RecorderProduces ==
  \E r \in RecIds :
    /\ recorders[r].state = "recording"
    /\ recorders[r].n + CountData(recorders[r].q) < MaxChunks
    /\ recorders' = [recorders EXCEPT ![r].q = Append(@, "data")]
    /\ timerWrote' = FALSE
    /\ UNCHANGED <<currentMode, recording, mediaRecorder, recordedChunks,
                   recordTimerRAF, timerPending, timerText, files, photoPending,
                 lastPhoto>>

\* the recorder fails while it records: the browser makes it inactive and
\* queues one task that fires error, dataavailable and stop
RecorderError ==
  \E r \in RecIds :
    /\ recorders[r].state = "recording"
    /\ recorders' = [recorders EXCEPT ![r].state = "inactive",
                                      ![r].q = Append(@, "errfinal"),
                                      ![r].errored = TRUE]
    /\ timerWrote' = FALSE
    /\ UNCHANGED <<currentMode, recording, mediaRecorder, recordedChunks,
                   recordTimerRAF, timerPending, timerText, files, photoPending,
                 lastPhoto>>

\* mediaRecorder.ondataavailable = (e) => recordedChunks.push(e.data)
ondataavailable(chunks, r, k) == Append(chunks, <<r, k>>)

\* saveVideo(): new Blob(recordedChunks), download; by is history
saveVideo(fs, r, chunks) == Append(fs, [by |-> r, chunks |-> chunks])

\* the browser runs the oldest queued recorder task (every task of an
\* earlier recorder was queued before any of a later one); the program sets
\* no onerror handler, so the error event of "errfinal" reaches no code
DispatchRecorderEvent ==
  \E r \in RecIds :
    /\ recorders[r].q # <<>>
    /\ \A p \in 1..(r - 1) : recorders[p].q = <<>>
    /\ recordedChunks' = ondataavailable(recordedChunks, r, recorders[r].n + 1)
    /\ IF Head(recorders[r].q) = "data"
         THEN UNCHANGED <<files, timerText>>
         ELSE /\ files' = saveVideo(files, r, recordedChunks')
              /\ timerText' = "00:00"
    /\ recorders' = [recorders EXCEPT ![r].q = Tail(@), ![r].n = @ + 1]
    /\ timerWrote' = FALSE
    /\ UNCHANGED <<currentMode, recording, mediaRecorder, recordTimerRAF,
                   timerPending, photoPending,
                 lastPhoto>>

\* what canvas.toBlob hands its callback: the encoded image, or null when
\* the canvas has no pixels or cannot be encoded
NoBlob == "null"

BlobResults == {"image", NoBlob}

\* URL.createObjectURL(blob) throws a TypeError for null
createObjectURL(blob) == IF blob = NoBlob THEN "TypeError" ELSE "url"

\* the toBlob callback of a photo capture runs: it has no try/catch and
\* reports nothing, so a throw of createObjectURL leaves it as an uncaught
\* exception before downloadLink.click(); lastPhoto is history
toBlobCallback(blob) ==
  LET url == createObjectURL(blob)
  IN [blob |-> blob,
      uncaught |-> url = "TypeError",
      downloaded |-> url # "TypeError",
      reported |-> FALSE]

\* the browser runs the toBlob callback of a pending photo capture
PhotoBlobCallback ==
  /\ photoPending > 0
  /\ photoPending' = photoPending - 1
  /\ \E blob \in BlobResults : lastPhoto' = toBlobCallback(blob)
  /\ timerWrote' = FALSE
  /\ UNCHANGED <<currentMode, recording, mediaRecorder, recordedChunks,
                 recordTimerRAF, timerPending, timerText, recorders, files>>


(***************************************************************************)
(* FILTER PIPELINE AND COMPOSITING  (script.js 84-99, 158-180, 276-282,     *)
(* 405-407)                                                                *)
(*                                                                         *)
(* DrawFrame is the body of drawFrame() on a ready video, as it runs on an *)
(* accepted render tick.  lastDraw is history: what the last step handed   *)
(* to the canvas when that step was a draw, <<>> otherwise.                *)
(***************************************************************************)
\* a plausible slip: the offset is not halved, the crop hangs on the
\* right and bottom edges
CropRect_NotHalved(vw, vh, z) ==
  LET zoomedW == RatDiv(RatOfInt(vw), z)
      zoomedH == RatDiv(RatOfInt(vh), z)
  IN [sx |-> RatSub(RatOfInt(vw), zoomedW), sy |-> RatSub(RatOfInt(vh), zoomedH),
      sw |-> zoomedW, sh |-> zoomedH]

\* zoomedW = vw / zoom; zoomedH = vh / zoom; sx = (vw - zoomedW) / 2;
\* sy = (vh - zoomedH) / 2: the source rectangle of ctx.drawImage
CropRect(vw, vh, z) ==
  LET zoomedW == RatDiv(RatOfInt(vw), z)
      zoomedH == RatDiv(RatOfInt(vh), z)
  IN [sx |-> RatDiv(RatSub(RatOfInt(vw), zoomedW), RatOfInt(2)),
      sy |-> RatDiv(RatSub(RatOfInt(vh), zoomedH), RatOfInt(2)),
      sw |-> zoomedW, sh |-> zoomedH]

\* a plausible slip: the two filter tests are exchanged
buildFilterString_Swapped(e, f) ==
  [brightness |-> RatAdd(RatOfInt(1), RatMul(e, <<3, 20>>)),
   contrast |-> IF f = "bw" THEN <<23, 20>> ELSE RatOfInt(1),
   saturation |-> IF f = "cinema" THEN RatOfInt(0)
                  ELSE IF f = "vivid" THEN <<13, 10>> ELSE RatOfInt(1)]

\* buildFilterString(): the three numbers it formats into ctx.filter
\* (0.15 = 3/20, 1.15 = 23/20, 1.3 = 13/10)
buildFilterString(e, f) ==
  [brightness |-> RatAdd(RatOfInt(1), RatMul(e, <<3, 20>>)),
   contrast |-> IF f = "cinema" THEN <<23, 20>> ELSE RatOfInt(1),
   saturation |-> IF f = "bw" THEN RatOfInt(0)
                  ELSE IF f = "vivid" THEN <<13, 10>> ELSE RatOfInt(1)]

\* if (currentFilter === "film") applyFilmGrain(cw, ch)
GrainApplied(f) == f = "film"

\* exposureSlider "input" handler
ExposureInput ==
  \E e \in ExposureValues :
    /\ exposure' = e
    /\ lastDraw' = <<>>
    /\ UNCHANGED currentFilter

\* filter chip "click" handler
FilterChipClick ==
  \E f \in Filters :
    /\ currentFilter' = f
    /\ lastDraw' = <<>>
    /\ UNCHANGED exposure

\* drawFrame() with video.readyState >= 2
DrawFrame ==
  \E size \in SourceSizes :
    /\ lastDraw' = [vw |-> size[1], vh |-> size[2], zoom |-> zoom,
                    crop |-> CropRect(size[1], size[2], zoom),
                    filter |-> buildFilterString(exposure, currentFilter),
                    grain |-> GrainApplied(currentFilter)]
    /\ UNCHANGED <<exposure, currentFilter>>


\* state after the script has run: the declarations of STATE, and the boot
\* call initCamera() awaiting getUserMedia
Init ==
  /\ zoom = RatOfInt(1)
  /\ maxZoom = 5
  /\ pinchStartDistance = NoPinch
  /\ pinchStartZoom = RatOfInt(1)
  /\ lastMove = <<>>
  /\ stream = NoStream
  /\ currentFacing = "environment"
  /\ targetFPS = 60
  /\ calls = <<[trigger |-> "boot", facing |-> "environment", fps |-> 60,
                phase |-> "gum"]>>
  /\ live = {}
  /\ videoReady = FALSE
  /\ alerts = {}
  /\ clock = 0
  /\ lastFrameTime = 0
  /\ renderPending = 0
  /\ tickLog = <<>>
  /\ gridBase = 0
  /\ currentMode = "photo"
  /\ recording = FALSE
  /\ mediaRecorder = NoRecorder
  /\ recordedChunks = <<>>
  /\ recordTimerRAF = NoHandle
  /\ timerPending = {}
  /\ timerText = "00:00"
  /\ timerWrote = FALSE
  /\ recorders = <<>>
  /\ files = <<>>
  /\ photoPending = 0
  /\ lastPhoto = <<>>
  /\ exposure = RatOfInt(0)
  /\ currentFilter = "none"
  /\ lastDraw = <<>>

NextCamera ==
  \/ SwitchCameraClick
  \/ FpsChange
  \/ GumResolve
  \/ GumReject
  \/ VideoLoaded
  \/ PlayResolve
  \/ PlayReject
  \/ AnimationFrame

SpecCamera ==
  /\ Init
  /\ [][NextCamera /\ UNCHANGED <<zoomVars, recVars, drawVars>>]_vars

NextRecord ==
  \/ ModePhotoClick
  \/ ModeVideoClick
  \/ CaptureClick
  \/ UpdateRecordTimer
  \/ RecorderProduces
  \/ RecorderError
  \/ DispatchRecorderEvent
  \/ PhotoBlobCallback

SpecRecord ==
  /\ Init
  /\ [][NextRecord /\ UNCHANGED <<zoomVars, camVars, renderVars, drawVars>>]_vars

NextZoom ==
  \/ ZoomSliderInput
  \/ TouchStart
  \/ TouchMove
  \/ TouchEnd
  \/ MaxZoomChange

SpecZoom ==
  /\ Init
  /\ [][NextZoom /\ UNCHANGED <<camVars, renderVars, recVars, drawVars>>]_vars

\* zoom inputs interleaved with draws
NextCrop ==
  \/ NextZoom /\ lastDraw' = <<>> /\ UNCHANGED <<exposure, currentFilter>>
  \/ DrawFrame /\ lastMove' = <<>>
                /\ UNCHANGED <<zoom, maxZoom, pinchStartDistance, pinchStartZoom>>

SpecCrop ==
  /\ Init
  /\ [][NextCrop /\ UNCHANGED <<camVars, renderVars, recVars>>]_vars

\* exposure and filter inputs interleaved with draws
NextFilter ==
  \/ ExposureInput
  \/ FilterChipClick
  \/ DrawFrame

SpecFilter ==
  /\ Init
  /\ [][NextFilter /\ UNCHANGED <<zoomVars, camVars, renderVars, recVars>>]_vars

(***************************************************************************)
(* PROPERTIES                                                              *)
(***************************************************************************)
RatLess(a, b) == ~RatLeq(b, a)

ZoomInRange == RatLeq(RatOfInt(1), zoom) /\ RatLeq(zoom, RatOfInt(maxZoom))

\* C1: in every reachable state 1 <= zoom <= maxZoom, and a step that
\* lowers maxZoom below the current zoom sets zoom to the new maxZoom
C1_ZoomWithinBounds ==
  /\ []ZoomInRange
  /\ [][RatLess(RatOfInt(maxZoom'), zoom) => zoom' = RatOfInt(maxZoom')]_vars

\* a pinch started at zoom 5, then maxZoom was lowered to 2 and zoom followed
C1_Witness ==
  /\ pinchStartZoom = RatOfInt(5)
  /\ maxZoom = 2
  /\ zoom = RatOfInt(2)

\* C2: at most one camera stream has unstopped tracks, at most one
\* getUserMedia request is outstanding, and every stream that is not the
\* current one has been stopped
C2_SingleLiveStream ==
  /\ Cardinality(live) <= 1
  /\ Cardinality(InPhase("gum")) <= 1
  /\ live \subseteq {stream}

FilesBy(r) == {k \in 1..Len(files) : files[k].by = r}

ChunksOf(r) == [k \in 1..recorders[r].n |-> <<r, k>>]

StopDispatched(r) == recorders[r].state = "inactive" /\ recorders[r].q = <<>>

\* C3: saveVideo runs at most once per recorder, and once the stop event of
\* a recorder has been dispatched there is exactly one file for it, holding
\* every chunk that recorder delivered, in order of arrival
C3_OneFileAllChunks ==
  \A r \in RecIds :
    /\ Cardinality(FilesBy(r)) <= 1
    /\ StopDispatched(r) =>
         /\ Cardinality(FilesBy(r)) = 1
         /\ \A k \in FilesBy(r) : files[k].chunks = ChunksOf(r)

TimerQuiet ==
  /\ ~recording => timerPending = {}
  /\ recording => Cardinality(timerPending) <= 1
  /\ timerWrote => recording

\* C4: while recording = false no updateRecordTimer callback is pending and
\* none writes the display, while recording = true at most one is pending,
\* and the step that stops the recording cancels exactly the one pending
\* callback
C4_TimerStopsWithRecording ==
  /\ []TimerQuiet
  /\ [][(recording /\ ~recording') =>
          (timerPending = {recordTimerRAF} /\ timerPending' = {})]_vars

\* the second recording has been stopped
C4_Witness ==
  /\ Len(recorders) = 2
  /\ ~recording
  /\ recorders[2].state = "inactive"
  /\ ~recorders[2].errored
  /\ recordTimerRAF # NoHandle
  /\ timerPending = {}

AcceptedIn(log) == {i \in 1..Len(log) : log[i].accepted}

\* ticks at 10, 20 and 45 ms after the baseline, targetFPS = 30 throughout
GateScenario ==
  /\ Len(tickLog) = 3
  /\ \A i \in 1..3 : tickLog[i].fps = 30
  /\ tickLog[1].now = tickLog[1].lft + 30
  /\ tickLog[2].now = tickLog[1].now + 30
  /\ tickLog[3].now = tickLog[2].now + 75

\* C5: a tick is accepted (drawFrame is called) exactly when
\* now - lastFrameTime >= 1000 / targetFPS; a skipped tick draws nothing,
\* leaves lastFrameTime alone and requests the next tick; with
\* targetFPS = 30, ticks 10, 20 and 45 ms after the baseline give exactly
\* one accepted draw
C5_FrameGate ==
  /\ \A i \in 1..Len(tickLog) :
       LET e == tickLog[i]
       IN /\ e.accepted <=> (e.now - e.lft) * e.fps >= 3000
          /\ ~e.accepted =>
               (e.outcome = "skipped" /\ e.lftAfter = e.lft /\ e.resched)
  /\ GateScenario => Cardinality(AcceptedIn(tickLog)) = 1

C5_Witness == GateScenario /\ tickLog[3].outcome = "drew"

\* C6: after an accepted tick 0 <= now - lastFrameTime < frameInterval,
\* lastFrameTime never decreases, an accepted tick moves it by a whole
\* number of frame intervals, and it stays on the grid of whole multiples
\* of frameInterval from its value when targetFPS was last set
C6_PhaseLockedBaseline ==
  /\ \A i \in 1..Len(tickLog) :
       LET e == tickLog[i]
       IN /\ e.lftAfter >= e.lft
          /\ e.accepted =>
               /\ 0 <= e.now - e.lftAfter
               /\ (e.now - e.lftAfter) * e.fps < 3000
               /\ ((e.lftAfter - e.lft) * e.fps) % 3000 = 0
               /\ e.lftAfter > e.lft
  /\ ((lastFrameTime - gridBase) * targetFPS) % 3000 = 0
  /\ lastFrameTime <= clock

\* an accepted tick that carried a remainder forward, not the first one
C6_Witness ==
  \E i \in 1..Len(tickLog) :
    /\ tickLog[i].accepted
    /\ tickLog[i].lft > 0
    /\ tickLog[i].lftAfter < tickLog[i].now
    /\ lastFrameTime > gridBase

\* C7: a tick on which the video is not ready draws nothing, raises nothing
\* and leaves lastFrameTime as it was
C7_UnreadyKeepsBaseline ==
  \A i \in 1..Len(tickLog) :
    ~tickLog[i].ready =>
      /\ tickLog[i].outcome \in {"skipped", "unready"}
      /\ tickLog[i].lftAfter = tickLog[i].lft

\* C8: a tick on which drawFrame throws still requests the next tick
C8_FaultKeepsLoop ==
  \A i \in 1..Len(tickLog) :
    tickLog[i].outcome = "threw" => tickLog[i].resched

\* C9: every failed initCamera call, whatever triggered it, has been
\* reported to the user
C9_FailureSurfaced == InPhase("failed") \subseteq alerts

ErrorDispatched(r) ==
  /\ recorders[r].errored
  /\ \A k \in 1..Len(recorders[r].q) : recorders[r].q[k] # "errfinal"

\* C10: once the error of the current recorder has been dispatched,
\* recording is false, no timer callback is pending, the chunk list is
\* empty and no file has been saved from that recorder
C10_RecorderErrorAborts ==
  \A r \in RecIds :
    (ErrorDispatched(r) /\ mediaRecorder = r) =>
      /\ ~recording
      /\ timerPending = {}
      /\ recordedChunks = <<>>
      /\ FilesBy(r) = {}

\* C11: a recording is active only in video mode
C11_RecordingOnlyInVideo == recording => currentMode = "video"

\* C12: a render tick is scheduled only after some acquisition has run to
\* its end, and once the latest initCamera call has failed no render tick
\* remains scheduled
C12_LoopIdleAfterFailure ==
  /\ renderPending > 0 => InPhase("done") # {}
  /\ calls[Len(calls)].phase = "failed" => renderPending = 0

\* C18: at most one renderLoop callback is pending in the animation-frame
\* queue
C18_SingleRenderLoop == renderPending <= 1

ChunksIn(cs) == {cs[j] : j \in 1..Len(cs)}

\* C19: every saved file holds only chunks of the recorder whose stop event
\* saved it, no chunk is in two files, and while a recording is active the
\* chunk list holds only chunks of the current recorder
C19_RecordingsIsolated ==
  /\ \A k \in 1..Len(files) : \A c \in ChunksIn(files[k].chunks) : c[1] = files[k].by
  /\ \A k, l \in 1..Len(files) :
       k # l => ChunksIn(files[k].chunks) \cap ChunksIn(files[l].chunks) = {}
  /\ recording => \A c \in ChunksIn(recordedChunks) : c[1] = mediaRecorder

\* C20: when no initCamera call is outstanding, the latest call ran to its
\* end and so did the call that produced the current stream, that stream
\* was requested with the current facing and the current frame rate
C20_ActiveStreamMatchesSettings ==
  (/\ InPhase("gum") = {}
   /\ InPhase("play") = {}
   /\ calls[Len(calls)].phase = "done"
   /\ stream # NoStream
   /\ calls[stream].phase = "done") =>
     /\ calls[stream].facing = currentFacing
     /\ calls[stream].fps = targetFPS

\* the zoom a pinch asks for, pinchStartZoom * dist / pinchStartDistance, as
\* an unreduced fraction
PinchAsked(dist) ==
  <<pinchStartZoom[1] * dist, pinchStartZoom[2] * pinchStartDistance>>

RatSame(a, b) == a[1] * b[2] = b[1] * a[2]

\* C15: after a two-finger touchmove of a pinch in progress (start distance
\* set and not zero) zoom is the zoom captured at touchstart times
\* distance / start distance, clamped into [1, maxZoom]; a touchmove with no
\* pinch in progress (after touchend) leaves zoom as it was
C15_PinchSetsZoom ==
  /\ [](lastMove # <<>> /\ lastMove[1] = 2 /\ pinchStartDistance # NoPinch =>
         LET t == PinchAsked(lastMove[2])
         IN /\ RatLess(t, RatOfInt(1)) => zoom = RatOfInt(1)
            /\ RatLess(RatOfInt(maxZoom), t) => zoom = RatOfInt(maxZoom)
            /\ (RatLeq(RatOfInt(1), t) /\ RatLeq(t, RatOfInt(maxZoom))) =>
                 RatSame(zoom, t))
  /\ [][(lastMove' # <<>> /\ pinchStartDistance = NoPinch) => zoom' = zoom]_vars

\* a pinch that started at zoom 2 was moved to 1.5 times its start distance
C15_Witness ==
  /\ pinchStartZoom = RatOfInt(2)
  /\ pinchStartDistance = 100
  /\ lastMove = <<2, 150>>
  /\ zoom = RatOfInt(3)
  /\ maxZoom = 5

\* C16: clamping is idempotent: setZoom applied to the stored zoom leaves it
\* unchanged, and for every slider value v the clamp of the clamp of v is
\* the clamp of v
C16_ClampIdempotent ==
  /\ ClampZoom(zoom, maxZoom) = zoom
  /\ \A v \in SliderValues :
       ClampZoom(ClampZoom(v, maxZoom), maxZoom) = ClampZoom(v, maxZoom)

\* the slider value 12 was stored as 10 = maxZoom, no pinch involved
C16_Witness ==
  /\ maxZoom = 10
  /\ zoom = RatOfInt(10)
  /\ pinchStartZoom = RatOfInt(1)
  /\ pinchStartDistance = NoPinch


\* C13: whenever drawFrame has just drawn a source of size (w, h), it used the
\* current zoom, which lies in [1, maxZoom], and its crop rectangle satisfies
\* sw * zoom = w, sh * zoom = h, 2 * sx + sw = w and 2 * sy + sh = h (centered
\* on the source midpoint), lies inside the source (sx >= 0, sy >= 0,
\* sx + sw <= w, sy + sh <= h), and for zoom = 1 it is the full frame
\* (0, 0, w, h).
C13_CropCenteredInside ==
  lastDraw # <<>> =>
    LET w == RatOfInt(lastDraw.vw)
        h == RatOfInt(lastDraw.vh)
        z == lastDraw.zoom
        c == lastDraw.crop
    IN /\ z = zoom
       /\ RatLeq(RatOfInt(1), z) /\ RatLeq(z, RatOfInt(maxZoom))
       /\ RatMul(c.sw, z) = w
       /\ RatMul(c.sh, z) = h
       /\ RatAdd(RatAdd(c.sx, c.sx), c.sw) = w
       /\ RatAdd(RatAdd(c.sy, c.sy), c.sh) = h
       /\ RatLeq(RatOfInt(0), c.sx) /\ RatLeq(RatOfInt(0), c.sy)
       /\ RatLeq(RatAdd(c.sx, c.sw), w) /\ RatLeq(RatAdd(c.sy, c.sh), h)
       /\ z = RatOfInt(1) =>
            c = [sx |-> RatOfInt(0), sy |-> RatOfInt(0), sw |-> w, sh |-> h]

C13_Witness ==
  /\ lastDraw # <<>>
  /\ lastDraw.vw = 1920 /\ lastDraw.vh = 1080
  /\ lastDraw.zoom = <<3, 2>>
  /\ lastDraw.crop = [sx |-> <<320, 1>>, sy |-> <<180, 1>>,
                      sw |-> <<1280, 1>>, sh |-> <<720, 1>>]

\* C14: whenever drawFrame has just drawn, the filter it set has
\* brightness = 1 + exposure * 0.15, contrast 1.15 for cinema and 1 otherwise,
\* saturation 0 for bw, 1.3 for vivid and 1 otherwise, and grain was laid over
\* the frame exactly when the selected filter is film; the descriptor depends
\* on the current exposure and filter only, whatever inputs came before.
C14_FilterDescriptor ==
  lastDraw # <<>> =>
    LET d == lastDraw.filter
    IN /\ d.brightness[1] * 20 * exposure[2]
            = d.brightness[2] * (20 * exposure[2] + 3 * exposure[1])
       /\ currentFilter = "cinema" => d.contrast = <<23, 20>>
       /\ currentFilter # "cinema" => d.contrast = <<1, 1>>
       /\ currentFilter = "bw" => d.saturation = <<0, 1>>
       /\ currentFilter = "vivid" => d.saturation = <<13, 10>>
       /\ currentFilter \notin {"bw", "vivid"} => d.saturation = <<1, 1>>
       /\ lastDraw.grain <=> currentFilter = "film"

C14_Witness ==
  /\ lastDraw # <<>>
  /\ exposure = <<-2, 1>> /\ currentFilter = "cinema"
  /\ lastDraw.filter = [brightness |-> <<7, 10>>, contrast |-> <<23, 20>>,
                        saturation |-> <<1, 1>>]
  /\ ~lastDraw.grain

\* C17: when encoding yields no image data, the capture path catches and
\* reports the failure: no download is triggered and no exception escapes
\* uncaught.
C17_EncodeErrorCaught ==
  (lastPhoto # <<>> /\ lastPhoto.blob = NoBlob) =>
    /\ ~lastPhoto.downloaded
    /\ ~lastPhoto.uncaught
    /\ lastPhoto.reported

=============================================================================
